---------------------------- MODULE Spec2Model ----------------------------
(***************************************************************************)
(* Model of the quote-bot batch pipeline:                                  *)
(*   src/preprocess.py           the indexing run (load, deduplicate,      *)
(*                               normalize, score keywords, fill the       *)
(*                               vector store, export keywords and stats)  *)
(*   src/generate_static_api.py  the materialization run (reset data/api,  *)
(*                               one query and one artifact per keyword,   *)
(*                               copy-through, full index)                 *)
(* Strings are sequences of one-character strings, so that strip(),        *)
(* lower(), ','.join and split(',') are computed and not assumed.          *)
(* The embedding model, TF-IDF vectorizer and the vector store's ranking   *)
(* are black boxes: their answers are nondeterministic choices.            *)
(***************************************************************************)
EXTENDS Integers, Sequences, FiniteSets, TLC

VARIABLES
    quotesFile,     \* data/quotes.json: [kind: "ok"|"missing"|"malformed", data]
    keywordsFile,   \* ./keywords.json: <<>> when missing, else <<keywords_by_category>>
    statsFile,      \* ./stats.json: <<>> when missing, else <<stats>>
    vectorizer,     \* the TfidfVectorizer black box: category -> seq of [word, score]
    collection,     \* chroma collection "quotes": <<>> when missing, else <<items>>
    api,            \* the data/api tree
    phase,          \* which script is running: "idle", "indexing", "materializing"
    run,            \* number of runs started so far (tags the files a run writes)
    ipc,            \* preprocess.py: position in the script
    raw_quotes,     \* preprocess.py: raw_quotes
    quotes,         \* preprocess.py: quotes
    duplicates,     \* preprocess.py: duplicates
    keywords_by_category, \* the variable of that name, in whichever script runs
    mpc,            \* generate_static_api.py: position in the script
    all_keywords,   \* generate_static_api.py: words of all_keywords not yet iterated
    vocabulary,     \* generate_static_api.py: all_keywords as built at lines 46-49
    queries,        \* log of collection.query calls of this run: seq of [word, results]
    abortReason,    \* why the running script stopped early ("" while it has not)
    outputsAtStart  \* the outputs (see Outputs) as they were when the current run started

vars == << quotesFile, keywordsFile, statsFile, vectorizer, collection, api, phase,
           run, ipc, raw_quotes, quotes, duplicates, keywords_by_category, mpc,
           all_keywords, vocabulary, queries, abortReason, outputsAtStart >>

-----------------------------------------------------------------------------
(* Bounds of the model *)

\* longest raw corpus of the normalizer scenarios
MaxRaw == 3
\* longest raw corpus of the whole-pipeline scenarios
MaxCorpus == 2
\* longest raw corpus of the scorer scenarios
MaxBucket == 3
\* number of script runs in one behaviour
MaxRuns == 3
\* TOP_K (generate_static_api.py:26 sets 50), scaled down so that truncation happens
TOP_K == 1
\* TOP_KEYWORDS_PER_CATEGORY (preprocess.py:27 sets 30), scaled down likewise
TOP_KEYWORDS_PER_CATEGORY == 2
\* MIN_KEYWORD_FREQUENCY (preprocess.py:28 sets 3), scaled down likewise
MIN_KEYWORD_FREQUENCY == 2

-----------------------------------------------------------------------------
(* Strings *)

Min(a, b) == IF a <= b THEN a ELSE b

\* str.isspace of one character
IsSpace(c) == c = " "

\* str.lower of one character
LowerChar(c) ==
    CASE c = "A" -> "a"
      [] c = "B" -> "b"
      [] c = "C" -> "c"
      [] c = "T" -> "t"
      [] OTHER -> c

\* str.lower
Lower(s) == [i \in 1..Len(s) |-> LowerChar(s[i])]

RECURSIVE LStrip(_)
\* str.lstrip
LStrip(s) ==
    IF s = <<>> THEN <<>>
    ELSE IF IsSpace(Head(s)) THEN LStrip(Tail(s))
    ELSE s

RECURSIVE RStrip(_)
\* str.rstrip
RStrip(s) ==
    IF s = <<>> THEN <<>>
    ELSE IF IsSpace(s[Len(s)]) THEN RStrip(SubSeq(s, 1, Len(s) - 1))
    ELSE s

\* str.strip
Strip(s) == RStrip(LStrip(s))

\* sub in s, for strings
Contains(sub, s) ==
    \E i \in 0..(Len(s) - Len(sub)) : SubSeq(s, i + 1, i + Len(sub)) = sub

\* x in xs, for lists
InList(x, xs) == \E i \in 1..Len(xs) : xs[i] = x

RECURSIVE Join(_, _)
\* sep.join(xs)
Join(xs, sep) ==
    IF xs = <<>> THEN <<>>
    ELSE IF Len(xs) = 1 THEN xs[1]
    ELSE xs[1] \o sep \o Join(Tail(xs), sep)

RECURSIVE SplitFrom(_, _, _)
SplitFrom(s, sepc, cur) ==
    IF s = <<>> THEN << cur >>
    ELSE IF Head(s) = sepc THEN << cur >> \o SplitFrom(Tail(s), sepc, <<>>)
    ELSE SplitFrom(Tail(s), sepc, Append(cur, Head(s)))

\* s.split(sepc) for a one-character separator
Split(s, sepc) == SplitFrom(s, sepc, <<>>)

Digit(d) ==
    CASE d = 0 -> "0" [] d = 1 -> "1" [] d = 2 -> "2" [] d = 3 -> "3"
      [] d = 4 -> "4" [] d = 5 -> "5" [] d = 6 -> "6" [] d = 7 -> "7"
      [] d = 8 -> "8" [] d = 9 -> "9"

RECURSIVE ToStr(_)
\* str(n) for n >= 0
ToStr(n) == IF n < 10 THEN << Digit(n) >> ELSE Append(ToStr(n \div 10), Digit(n % 10))

\* the elements of a sequence
Range(s) == { s[i] : i \in 1..Len(s) }

-----------------------------------------------------------------------------
(* Raw records: a JSON object whose fields may be absent.                   *)
(* A field is [k |-> "absent" | "null" | "str" | "list" | "int", v |-> value] *)

Absent == [k |-> "absent", v |-> <<>>]
Null == [k |-> "null", v |-> <<>>]
Str(s) == [k |-> "str", v |-> s]
List(l) == [k |-> "list", v |-> l]

Rec(q, a, c, t, p) == [Quote |-> q, Author |-> a, Category |-> c, Tags |-> t, Popularity |-> p]

\* q.get(field, default) for a string field
Get(fld, default) == IF fld.k = "absent" THEN default ELSE fld.v

OTHER_CATEGORY == << "o", "t", "h", "e", "r" >>

-----------------------------------------------------------------------------
(* preprocess.py, lines 37-59: deduplication *)

\* the key without the author
DedupKeyTextOnly(q) == << Strip(Get(q.Quote, <<>>)), <<>> >>

\* lines 45-46: the key of a raw record
DedupKey(q) == << Strip(Get(q.Quote, <<>>)), Strip(Get(q.Author, <<>>)) >>

\* lines 43-57: one iteration of the loop over raw_quotes
DedupStep(acc, q) ==
    LET quote_text == Strip(Get(q.Quote, <<>>))
        key == DedupKey(q)
    IN  IF quote_text = <<>> THEN acc
        ELSE IF key \notin acc.seen
             THEN [acc EXCEPT !.seen = @ \cup {key}, !.quotes = Append(@, q)]
             ELSE [acc EXCEPT !.duplicates = @ + 1]

RECURSIVE DedupFrom(_, _, _)
DedupFrom(raw, i, acc) ==
    IF i > Len(raw) THEN acc ELSE DedupFrom(raw, i + 1, DedupStep(acc, raw[i]))

\* lines 39-57: the whole loop
Deduplicate(raw) == DedupFrom(raw, 1, [quotes |-> <<>>, seen |-> {}, duplicates |-> 0])

-----------------------------------------------------------------------------
(* preprocess.py, lines 61-81: ids, category and tag normalization *)

\* line 71
NormalizeCategory(q) ==
    LET c == IF q.Category.k = "str" /\ q.Category.v # <<>> THEN q.Category.v
             ELSE OTHER_CATEGORY
    IN  Lower(Strip(c))

RECURSIVE NormalizeTagList(_)
\* line 77: [tag.strip().lower() for tag in quote['Tags'] if tag.strip()]
NormalizeTagList(tags) ==
    IF tags = <<>> THEN <<>>
    ELSE IF Strip(Head(tags)) # <<>>
         THEN << Lower(Strip(Head(tags))) >> \o NormalizeTagList(Tail(tags))
         ELSE NormalizeTagList(Tail(tags))

\* lines 76-79
NormalizeTags(q) ==
    IF q.Tags.k = "list" /\ q.Tags.v # <<>> THEN NormalizeTagList(q.Tags.v) ELSE <<>>

\* lines 66-81: the loop body for the quote at 0-based position i
NormalizeQuote(q, i) ==
    [Quote |-> q.Quote, Author |-> q.Author, Category |-> q.Category, Tags |-> q.Tags,
     Popularity |-> q.Popularity,
     id |-> i,
     category_normalized |-> NormalizeCategory(q),
     tags_normalized |-> NormalizeTags(q)]

\* lines 66-81: the whole loop
Normalize(qs) == [i \in 1..Len(qs) |-> NormalizeQuote(qs[i], i - 1)]

\* all_categories
AllCategories(qs) == { qs[i].category_normalized : i \in 1..Len(qs) }

RECURSIVE Bucket(_, _)
\* quotes_by_category[category]: the quotes of the category, in corpus order
Bucket(qs, category) ==
    IF qs = <<>> THEN <<>>
    ELSE IF Head(qs).category_normalized = category
         THEN << Head(qs) >> \o Bucket(Tail(qs), category)
         ELSE Bucket(Tail(qs), category)

-----------------------------------------------------------------------------
(* preprocess.py, lines 101-193: extract_keywords_for_category          *)
(* tfidf_scores is the vectorizer's answer, a sequence of [word, score] *)
(* with distinct words, scores in thousandths; <<>> when it raised.     *)

RECURSIVE Concat(_)
\* the concatenation of a sequence of sequences
Concat(ss) == IF ss = <<>> THEN <<>> ELSE Head(ss) \o Concat(Tail(ss))

\* lines 108-110: every tag occurrence of the category, in order
AllTags(category_quotes) ==
    Concat([i \in 1..Len(category_quotes) |-> category_quotes[i].tags_normalized])

\* tag_counter[tag]
TagCount(category_quotes, tag) ==
    LET ts == AllTags(category_quotes)
    IN  Cardinality({ i \in 1..Len(ts) : ts[i] = tag })

RECURSIVE Distinct(_, _)
\* the elements of xs not in seen, each once, in order of first occurrence
Distinct(xs, seen) ==
    IF xs = <<>> THEN <<>>
    ELSE IF Head(xs) \in seen THEN Distinct(Tail(xs), seen)
    ELSE << Head(xs) >> \o Distinct(Tail(xs), seen \cup {Head(xs)})

RECURSIVE FilterFrequent(_, _)
\* line 144: the tags counted at least MIN_KEYWORD_FREQUENCY times
FilterFrequent(tags, category_quotes) ==
    IF tags = <<>> THEN <<>>
    ELSE IF TagCount(category_quotes, Head(tags)) >= MIN_KEYWORD_FREQUENCY
         THEN << Head(tags) >> \o FilterFrequent(Tail(tags), category_quotes)
         ELSE FilterFrequent(Tail(tags), category_quotes)

\* lines 131-153: keyword_scores, in insertion order, before counting
Candidates(category_quotes, tfidf_scores) ==
    LET tfidf_words == { tfidf_scores[i].word : i \in 1..Len(tfidf_scores) }
        frequent == FilterFrequent(Distinct(AllTags(category_quotes), {}), category_quotes)
        from_tfidf == [i \in 1..Len(tfidf_scores) |->
            [word |-> tfidf_scores[i].word,
             tfidf_score |-> tfidf_scores[i].score,
             tag_count |-> IF InList(tfidf_scores[i].word, frequent)
                           THEN TagCount(category_quotes, tfidf_scores[i].word) ELSE 0]]
        new_tags == Distinct(frequent, tfidf_words)
        from_tags == [i \in 1..Len(new_tags) |->
            [word |-> new_tags[i], tfidf_score |-> 0,
             tag_count |-> TagCount(category_quotes, new_tags[i])]]
    IN  from_tfidf \o from_tags

\* lines 157-159: the number of quotes of the category containing the keyword
QuoteCount(category_quotes, keyword) ==
    Cardinality({ i \in 1..Len(category_quotes) :
        \/ Contains(Lower(keyword), Lower(category_quotes[i].Quote.v))
        \/ InList(Lower(keyword), category_quotes[i].tags_normalized) })

\* round(num / den) to the nearest integer, ties to even
RoundDiv(num, den) ==
    LET q == num \div den
        r == num % den
    IN  IF 2 * r < den THEN q
        ELSE IF 2 * r > den THEN q + 1
        ELSE IF q % 2 = 0 THEN q ELSE q + 1

\* lines 165-175: impact, in thousandths
\*   0.4 * tfidf_score + 0.3 * min(tag_count/100, 1) + 0.3 * min(quote_count/n, 1)
Impact(tfidf_score, tag_count, quote_count, n) ==
    RoundDiv(4 * tfidf_score * n
             + 3 * n * Min(10 * tag_count, 1000)
             + 3 * Min(1000 * quote_count, 1000 * n),
             10 * n)

\* lines 156-175: keyword_scores with quote_count and impact filled in
Scored(category_quotes, tfidf_scores) ==
    LET cands == Candidates(category_quotes, tfidf_scores)
        n == Len(category_quotes)
    IN  [i \in 1..Len(cands) |->
            LET qc == QuoteCount(category_quotes, cands[i].word)
            IN  [word |-> cands[i].word,
                 tfidf_score |-> cands[i].tfidf_score,
                 tag_count |-> cands[i].tag_count,
                 quote_count |-> qc,
                 impact |-> Impact(cands[i].tfidf_score, cands[i].tag_count, qc, n)]]

\* line 180: key(a) > key(b) for the key (impact, quote_count)
KeyGreater(a, b) ==
    \/ a.impact > b.impact
    \/ a.impact = b.impact /\ a.quote_count > b.quote_count

RECURSIVE InsertDesc(_, _)
\* kw put into the descending list after every entry whose key is not smaller
InsertDesc(sorted, kw) ==
    IF sorted = <<>> THEN << kw >>
    ELSE IF KeyGreater(kw, Head(sorted)) THEN << kw >> \o sorted
    ELSE << Head(sorted) >> \o InsertDesc(Tail(sorted), kw)

RECURSIVE SortDescFrom(_, _, _)
SortDescFrom(kws, i, acc) ==
    IF i > Len(kws) THEN acc ELSE SortDescFrom(kws, i + 1, InsertDesc(acc, kws[i]))

\* lines 178-181: sorted(..., key=(impact, quote_count), reverse=True), which is stable
SortDesc(kws) == SortDescFrom(kws, 1, <<>>)

\* xs[:n]
Take(xs, n) == SubSeq(xs, 1, Min(n, Len(xs)))

RECURSIVE WithQuotes(_)
\* line 192: the entries with quote_count > 0
WithQuotes(kws) ==
    IF kws = <<>> THEN <<>>
    ELSE IF Head(kws).quote_count > 0 THEN << Head(kws) >> \o WithQuotes(Tail(kws))
    ELSE WithQuotes(Tail(kws))

\* lines 185-191: the output record of one keyword
Format(kws) ==
    [i \in 1..Len(kws) |->
        [word |-> kws[i].word, count |-> kws[i].quote_count, impact |-> kws[i].impact]]

\* lines 177-193: sort, cut to TOP_KEYWORDS_PER_CATEGORY, then drop the zero counts
SelectKeywords(scored) ==
    Format(WithQuotes(Take(SortDesc(scored), TOP_KEYWORDS_PER_CATEGORY)))

\* lines 101-193
extract_keywords_for_category(category_quotes, tfidf_scores) ==
    SelectKeywords(Scored(category_quotes, tfidf_scores))

-----------------------------------------------------------------------------
(* The files and the vector store *)

\* a function with no entries (an empty directory)
NoEntries == [w \in {} |-> <<>>]

\* f with key k set to v
Put(f, k, v) == [w \in DOMAIN f \cup {k} |-> IF w = k THEN v ELSE f[w]]

\* data/api does not exist
NoApi == [exists |-> FALSE, quotes |-> NoEntries, keywords |-> <<>>, stats |-> <<>>,
          full_index |-> <<>>]

\* generate_static_api.py lines 29-31: data/api removed if it exists, then data/api/quotes made
FreshApi == [exists |-> TRUE, quotes |-> NoEntries, keywords |-> <<>>, stats |-> <<>>,
             full_index |-> <<>>]

\* everything either script creates, writes or removes
Outputs == [api |-> api, keywordsFile |-> keywordsFile, statsFile |-> statsFile,
            collection |-> collection]

\* the TfidfVectorizer's answer for a category (<<>> when fit_transform raises, line 127)
Vectorize(category) == IF category \in DOMAIN vectorizer THEN vectorizer[category] ELSE <<>>

\* preprocess.py lines 229-239: what collection.add stores for one quote
StoreItem(q) ==
    [id |-> ToStr(q.id),
     document |-> q.Quote.v,
     metadata |-> [author |-> Get(q.Author, <<>>),
                   category |-> q.category_normalized,
                   tags |-> Join(q.tags_normalized, << "," >>),
                   popularity |-> IF q.Popularity.k = "absent" THEN 0 ELSE q.Popularity.v[1]]]

\* preprocess.py lines 225-241: all batches
StoreItems(qs) == [i \in 1..Len(qs) |-> StoreItem(qs[i])]

\* preprocess.py lines 255-268 (top_authors and the embedding fields left out)
Stats(qs, kbc) ==
    [total_quotes |-> Len(qs),
     total_categories |-> Cardinality(AllCategories(qs)),
     categories |-> [c \in AllCategories(qs) |->
        [quote_count |-> Len(Bucket(qs, c)), keyword_count |-> Len(kbc[c])]]]

-----------------------------------------------------------------------------
(* preprocess.py: the indexing run *)

IdxLocalsCleared ==
    /\ raw_quotes' = <<>>
    /\ quotes' = <<>>
    /\ duplicates' = 0
    /\ keywords_by_category' = NoEntries

MatLocalsCleared ==
    /\ all_keywords' = {}
    /\ vocabulary' = {}
    /\ queries' = <<>>

\* the script is started
IdxStart ==
    /\ phase = "idle"
    /\ run < MaxRuns
    /\ phase' = "indexing"
    /\ run' = run + 1
    /\ ipc' = "load"
    /\ abortReason' = ""
    /\ outputsAtStart' = Outputs
    /\ IdxLocalsCleared
    /\ UNCHANGED << quotesFile, keywordsFile, statsFile, vectorizer, collection, api,
                    mpc, all_keywords, vocabulary, queries >>

\* lines 32-33
IdxLoad ==
    /\ phase = "indexing" /\ ipc = "load"
    /\ quotesFile.kind = "ok"
    /\ raw_quotes' = quotesFile.data
    /\ ipc' = "dedup"
    /\ UNCHANGED << quotesFile, keywordsFile, statsFile, vectorizer, collection, api,
                    phase, run, quotes, duplicates, keywords_by_category, mpc,
                    all_keywords, vocabulary, queries, abortReason, outputsAtStart >>

\* lines 32-33: open or json.load raises
IdxLoadFail ==
    /\ phase = "indexing" /\ ipc = "load"
    /\ quotesFile.kind # "ok"
    /\ ipc' = "aborted"
    /\ abortReason' = "input"
    /\ UNCHANGED << quotesFile, keywordsFile, statsFile, vectorizer, collection, api,
                    phase, run, raw_quotes, quotes, duplicates, keywords_by_category,
                    mpc, all_keywords, vocabulary, queries, outputsAtStart >>

\* lines 39-59
IdxDedup ==
    /\ phase = "indexing" /\ ipc = "dedup"
    /\ LET acc == Deduplicate(raw_quotes)
       IN  /\ quotes' = acc.quotes
           /\ duplicates' = acc.duplicates
    /\ ipc' = "normalize"
    /\ UNCHANGED << quotesFile, keywordsFile, statsFile, vectorizer, collection, api,
                    phase, run, raw_quotes, keywords_by_category, mpc, all_keywords,
                    vocabulary, queries, abortReason, outputsAtStart >>

\* lines 63-81 (and 90-94, the embeddings, which the model does not hold)
IdxNormalize ==
    /\ phase = "indexing" /\ ipc = "normalize"
    /\ quotes' = Normalize(quotes)
    /\ ipc' = "score"
    /\ UNCHANGED << quotesFile, keywordsFile, statsFile, vectorizer, collection, api,
                    phase, run, raw_quotes, duplicates, keywords_by_category, mpc,
                    all_keywords, vocabulary, queries, abortReason, outputsAtStart >>

\* lines 195-200
IdxScore ==
    /\ phase = "indexing" /\ ipc = "score"
    /\ keywords_by_category' = [c \in AllCategories(quotes) |->
            extract_keywords_for_category(Bucket(quotes, c), Vectorize(c))]
    /\ ipc' = "reset_collection"
    /\ UNCHANGED << quotesFile, keywordsFile, statsFile, vectorizer, collection, api,
                    phase, run, raw_quotes, quotes, duplicates, mpc, all_keywords,
                    vocabulary, queries, abortReason, outputsAtStart >>

\* lines 208-221: the collection is dropped and created empty
IdxResetCollection ==
    /\ phase = "indexing" /\ ipc = "reset_collection"
    /\ collection' = << <<>> >>
    /\ ipc' = "add"
    /\ UNCHANGED << quotesFile, keywordsFile, statsFile, vectorizer, api, phase, run,
                    raw_quotes, quotes, duplicates, keywords_by_category, mpc,
                    all_keywords, vocabulary, queries, abortReason, outputsAtStart >>

\* lines 224-241
IdxAdd ==
    /\ phase = "indexing" /\ ipc = "add"
    /\ collection' = << collection[1] \o StoreItems(quotes) >>
    /\ ipc' = "export_keywords"
    /\ UNCHANGED << quotesFile, keywordsFile, statsFile, vectorizer, api, phase, run,
                    raw_quotes, quotes, duplicates, keywords_by_category, mpc,
                    all_keywords, vocabulary, queries, abortReason, outputsAtStart >>

\* lines 249-250
IdxExportKeywords ==
    /\ phase = "indexing" /\ ipc = "export_keywords"
    /\ keywordsFile' = << keywords_by_category >>
    /\ ipc' = "export_stats"
    /\ UNCHANGED << quotesFile, statsFile, vectorizer, collection, api, phase, run,
                    raw_quotes, quotes, duplicates, keywords_by_category, mpc,
                    all_keywords, vocabulary, queries, abortReason, outputsAtStart >>

\* lines 255-271
IdxExportStats ==
    /\ phase = "indexing" /\ ipc = "export_stats"
    /\ statsFile' = << Stats(quotes, keywords_by_category) >>
    /\ ipc' = "done"
    /\ UNCHANGED << quotesFile, keywordsFile, vectorizer, collection, api, phase, run,
                    raw_quotes, quotes, duplicates, keywords_by_category, mpc,
                    all_keywords, vocabulary, queries, abortReason, outputsAtStart >>

\* line 267: embeddings.shape[1] raises IndexError when encode([]) answered an array
\* of shape (0,), which it may do when no quote is left
IdxExportStatsFail ==
    /\ phase = "indexing" /\ ipc = "export_stats"
    /\ quotes = <<>>
    /\ ipc' = "aborted"
    /\ abortReason' = "shape"
    /\ UNCHANGED << quotesFile, keywordsFile, statsFile, vectorizer, collection, api,
                    phase, run, raw_quotes, quotes, duplicates, keywords_by_category,
                    mpc, all_keywords, vocabulary, queries, outputsAtStart >>

\* the process dies after some statement has run (a library call raises, it is killed)
IdxCrash ==
    /\ phase = "indexing" /\ ipc \notin {"load", "done", "aborted"}
    /\ ipc' = "aborted"
    /\ abortReason' = "crash"
    /\ UNCHANGED << quotesFile, keywordsFile, statsFile, vectorizer, collection, api,
                    phase, run, raw_quotes, quotes, duplicates, keywords_by_category,
                    mpc, all_keywords, vocabulary, queries, outputsAtStart >>

\* the process has ended
IdxExit ==
    /\ phase = "indexing" /\ ipc \in {"done", "aborted"}
    /\ phase' = "idle"
    /\ ipc' = "off"
    /\ abortReason' = ""
    /\ IdxLocalsCleared
    /\ UNCHANGED << quotesFile, keywordsFile, statsFile, vectorizer, collection, api,
                    run, mpc, all_keywords, vocabulary, queries, outputsAtStart >>

IndexerNext ==
    \/ IdxStart \/ IdxLoad \/ IdxLoadFail \/ IdxDedup \/ IdxNormalize \/ IdxScore
    \/ IdxResetCollection \/ IdxAdd \/ IdxExportKeywords \/ IdxExportStats
    \/ IdxExportStatsFail \/ IdxCrash \/ IdxExit

-----------------------------------------------------------------------------
(* generate_static_api.py: the materialization run *)

\* lines 46-49: the words of every category's keyword list
AllKeywords(kbc) == UNION { { kbc[c][i].word : i \in 1..Len(kbc[c]) } : c \in DOMAIN kbc }

\* what collection.query may answer with n_results = k: up to k distinct stored items,
\* in an order the store chooses
QueryAnswers(items, k) ==
    LET n == Min(k, Len(items))
    IN  { [i \in 1..n |-> items[f[i]]] :
            f \in { g \in [1..n -> 1..Len(items)] :
                      \A a, b \in 1..n : a # b => g[a] # g[b] } }

\* quote_data with 'category' read from the wrong metadata key
QuoteDataWrongKey(item) ==
    [id |-> item.id,
     quote |-> item.document,
     author |-> item.metadata.author,
     category |-> item.metadata.author,
     tags |-> IF item.metadata.tags # <<>> THEN Split(item.metadata.tags, ",") ELSE <<>>,
     popularity |-> item.metadata.popularity]

\* lines 80-87: quote_data for one result
QuoteData(item) ==
    [id |-> item.id,
     quote |-> item.document,
     author |-> item.metadata.author,
     category |-> item.metadata.category,
     tags |-> IF item.metadata.tags # <<>> THEN Split(item.metadata.tags, ",") ELSE <<>>,
     popularity |-> item.metadata.popularity]

\* lines 78-88: the list written to the keyword's file
FormatResults(results) == [i \in 1..Len(results) |-> QuoteData(results[i])]

\* lines 109-115: one full-index entry, for the raw record at 0-based position i
IndexEntry(q, i) ==
    [i |-> i,
     q |-> q.Quote.v,
     a |-> Get(q.Author, <<>>),
     c |-> IF q.Category.k = "absent" THEN Str(<<>>) ELSE q.Category,
     t |-> IF q.Tags.k = "absent" THEN <<>> ELSE q.Tags.v]

\* lines 107-115
FullIndex(all_quotes) == [i \in 1..Len(all_quotes) |-> IndexEntry(all_quotes[i], i - 1)]

\* line 111: q['Quote'] raises KeyError for some record
SomeQuoteMissing(all_quotes) == \E i \in 1..Len(all_quotes) : all_quotes[i].Quote.k = "absent"

\* a file as written by the current run
Written(data) == << [run |-> run, data |-> data] >>

\* the script is started
MatStart ==
    /\ phase = "idle"
    /\ run < MaxRuns
    /\ phase' = "materializing"
    /\ run' = run + 1
    /\ mpc' = "reset"
    /\ abortReason' = ""
    /\ outputsAtStart' = Outputs
    /\ MatLocalsCleared
    /\ keywords_by_category' = NoEntries
    /\ UNCHANGED << quotesFile, keywordsFile, statsFile, vectorizer, collection, api,
                    ipc, raw_quotes, quotes, duplicates >>

\* data/api/quotes made without removing what data/api holds
ResetApiDirKeepingTree == [api EXCEPT !.exists = TRUE]

\* lines 29-31
ResetApiDir == FreshApi

\* lines 29-31
MatReset ==
    /\ phase = "materializing" /\ mpc = "reset"
    /\ api' = ResetApiDir
    /\ mpc' = "connect"
    /\ UNCHANGED << quotesFile, keywordsFile, statsFile, vectorizer, collection, phase,
                    run, ipc, raw_quotes, quotes, duplicates, keywords_by_category,
                    all_keywords, vocabulary, queries, abortReason, outputsAtStart >>

\* lines 35-37
MatConnect ==
    /\ phase = "materializing" /\ mpc = "connect"
    /\ collection # <<>>
    /\ mpc' = "load_keywords"
    /\ UNCHANGED << quotesFile, keywordsFile, statsFile, vectorizer, collection, api,
                    phase, run, ipc, raw_quotes, quotes, duplicates,
                    keywords_by_category, all_keywords, vocabulary, queries,
                    abortReason, outputsAtStart >>

\* line 36: get_collection raises, there is no collection "quotes"
MatConnectFail ==
    /\ phase = "materializing" /\ mpc = "connect"
    /\ collection = <<>>
    /\ mpc' = "aborted"
    /\ abortReason' = "store"
    /\ UNCHANGED << quotesFile, keywordsFile, statsFile, vectorizer, collection, api,
                    phase, run, ipc, raw_quotes, quotes, duplicates,
                    keywords_by_category, all_keywords, vocabulary, queries,
                    outputsAtStart >>

\* lines 42-49
MatLoadKeywords ==
    /\ phase = "materializing" /\ mpc = "load_keywords"
    /\ keywordsFile # <<>>
    /\ keywords_by_category' = keywordsFile[1]
    /\ vocabulary' = AllKeywords(keywordsFile[1])
    /\ all_keywords' = AllKeywords(keywordsFile[1])
    /\ mpc' = "keywords"
    /\ UNCHANGED << quotesFile, keywordsFile, statsFile, vectorizer, collection, api,
                    phase, run, ipc, raw_quotes, quotes, duplicates, queries,
                    abortReason, outputsAtStart >>

\* lines 42-43: open raises, there is no keywords.json
MatLoadKeywordsFail ==
    /\ phase = "materializing" /\ mpc = "load_keywords"
    /\ keywordsFile = <<>>
    /\ mpc' = "aborted"
    /\ abortReason' = "input"
    /\ UNCHANGED << quotesFile, keywordsFile, statsFile, vectorizer, collection, api,
                    phase, run, ipc, raw_quotes, quotes, duplicates,
                    keywords_by_category, all_keywords, vocabulary, queries,
                    outputsAtStart >>

\* the loop run over every category's list instead of over the set of words: a word
\* is queried and written once per category that lists it
MatKeywordPerCategory ==
    /\ phase = "materializing" /\ mpc = "keywords"
    /\ \E keyword \in all_keywords :
        \E results \in QueryAnswers(collection[1], TOP_K) :
            LET listing == { c \in DOMAIN keywords_by_category :
                               \E i \in 1..Len(keywords_by_category[c]) :
                                   keywords_by_category[c][i].word = keyword }
                once == << [word |-> keyword, results |-> results] >>
            IN  /\ queries' = queries \o (IF Cardinality(listing) > 1 THEN once \o once ELSE once)
                /\ api' = [api EXCEPT !.quotes = Put(@, keyword, Written(FormatResults(results))[1])]
                /\ all_keywords' = all_keywords \ {keyword}
    /\ UNCHANGED << quotesFile, keywordsFile, statsFile, vectorizer, collection, phase,
                    run, ipc, raw_quotes, quotes, duplicates, keywords_by_category,
                    mpc, vocabulary, abortReason, outputsAtStart >>

\* lines 62-93: one iteration of the loop, for a keyword the set iteration yields next
MatKeyword ==
    /\ phase = "materializing" /\ mpc = "keywords"
    /\ \E keyword \in all_keywords :
        \E results \in QueryAnswers(collection[1], TOP_K) :
            /\ queries' = Append(queries, [word |-> keyword, results |-> results])
            /\ api' = [api EXCEPT !.quotes = Put(@, keyword, Written(FormatResults(results))[1])]
            /\ all_keywords' = all_keywords \ {keyword}
    /\ UNCHANGED << quotesFile, keywordsFile, statsFile, vectorizer, collection, phase,
                    run, ipc, raw_quotes, quotes, duplicates, keywords_by_category,
                    mpc, vocabulary, abortReason, outputsAtStart >>

\* the failure caught and the keyword skipped
MatKeywordSkipped ==
    /\ phase = "materializing" /\ mpc = "keywords"
    /\ \E keyword \in all_keywords : all_keywords' = all_keywords \ {keyword}
    /\ UNCHANGED << quotesFile, keywordsFile, statsFile, vectorizer, collection, api,
                    phase, run, ipc, raw_quotes, quotes, duplicates,
                    keywords_by_category, mpc, vocabulary, queries, abortReason,
                    outputsAtStart >>

\* lines 68-75: model.encode or collection.query raises for the next keyword
MatKeywordFail ==
    /\ phase = "materializing" /\ mpc = "keywords"
    /\ all_keywords # {}
    /\ mpc' = "aborted"
    /\ abortReason' = "query"
    /\ UNCHANGED << quotesFile, keywordsFile, statsFile, vectorizer, collection, api,
                    phase, run, ipc, raw_quotes, quotes, duplicates,
                    keywords_by_category, all_keywords, vocabulary, queries,
                    outputsAtStart >>

\* line 98, reached when the loop is over
MatCopyKeywords ==
    /\ phase = "materializing" /\ mpc = "keywords"
    /\ all_keywords = {}
    /\ api' = [api EXCEPT !.keywords = Written(keywordsFile[1])]
    /\ mpc' = "copy_stats"
    /\ UNCHANGED << quotesFile, keywordsFile, statsFile, vectorizer, collection, phase,
                    run, ipc, raw_quotes, quotes, duplicates, keywords_by_category,
                    all_keywords, vocabulary, queries, abortReason, outputsAtStart >>

\* line 99
MatCopyStats ==
    /\ phase = "materializing" /\ mpc = "copy_stats"
    /\ statsFile # <<>>
    /\ api' = [api EXCEPT !.stats = Written(statsFile[1])]
    /\ mpc' = "full_index"
    /\ UNCHANGED << quotesFile, keywordsFile, statsFile, vectorizer, collection, phase,
                    run, ipc, raw_quotes, quotes, duplicates, keywords_by_category,
                    all_keywords, vocabulary, queries, abortReason, outputsAtStart >>

\* line 99: shutil.copy raises, there is no stats.json
MatCopyStatsFail ==
    /\ phase = "materializing" /\ mpc = "copy_stats"
    /\ statsFile = <<>>
    /\ mpc' = "aborted"
    /\ abortReason' = "stats"
    /\ UNCHANGED << quotesFile, keywordsFile, statsFile, vectorizer, collection, api,
                    phase, run, ipc, raw_quotes, quotes, duplicates,
                    keywords_by_category, all_keywords, vocabulary, queries,
                    outputsAtStart >>

\* lines 103-121
MatFullIndex ==
    /\ phase = "materializing" /\ mpc = "full_index"
    /\ quotesFile.kind = "ok"
    /\ ~SomeQuoteMissing(quotesFile.data)
    /\ api' = [api EXCEPT !.full_index = Written(FullIndex(quotesFile.data))]
    /\ mpc' = "done"
    /\ UNCHANGED << quotesFile, keywordsFile, statsFile, vectorizer, collection, phase,
                    run, ipc, raw_quotes, quotes, duplicates, keywords_by_category,
                    all_keywords, vocabulary, queries, abortReason, outputsAtStart >>

\* lines 103-104: open or json.load raises
MatFullIndexInputFail ==
    /\ phase = "materializing" /\ mpc = "full_index"
    /\ quotesFile.kind # "ok"
    /\ mpc' = "aborted"
    /\ abortReason' = "input"
    /\ UNCHANGED << quotesFile, keywordsFile, statsFile, vectorizer, collection, api,
                    phase, run, ipc, raw_quotes, quotes, duplicates,
                    keywords_by_category, all_keywords, vocabulary, queries,
                    outputsAtStart >>

\* line 111: KeyError, a record has no 'Quote'
MatFullIndexKeyError ==
    /\ phase = "materializing" /\ mpc = "full_index"
    /\ quotesFile.kind = "ok"
    /\ SomeQuoteMissing(quotesFile.data)
    /\ mpc' = "aborted"
    /\ abortReason' = "keyerror"
    /\ UNCHANGED << quotesFile, keywordsFile, statsFile, vectorizer, collection, api,
                    phase, run, ipc, raw_quotes, quotes, duplicates,
                    keywords_by_category, all_keywords, vocabulary, queries,
                    outputsAtStart >>

\* the process dies after some statement has run
MatCrash ==
    /\ phase = "materializing" /\ mpc \notin {"reset", "done", "aborted"}
    /\ mpc' = "aborted"
    /\ abortReason' = "crash"
    /\ UNCHANGED << quotesFile, keywordsFile, statsFile, vectorizer, collection, api,
                    phase, run, ipc, raw_quotes, quotes, duplicates,
                    keywords_by_category, all_keywords, vocabulary, queries,
                    outputsAtStart >>

\* the process has ended
MatExit ==
    /\ phase = "materializing" /\ mpc \in {"done", "aborted"}
    /\ phase' = "idle"
    /\ mpc' = "off"
    /\ abortReason' = ""
    /\ MatLocalsCleared
    /\ keywords_by_category' = NoEntries
    /\ UNCHANGED << quotesFile, keywordsFile, statsFile, vectorizer, collection, api,
                    run, ipc, raw_quotes, quotes, duplicates, outputsAtStart >>

MaterializerNext ==
    \/ MatStart \/ MatReset \/ MatConnect \/ MatConnectFail \/ MatLoadKeywords
    \/ MatLoadKeywordsFail \/ MatKeyword \/ MatKeywordFail \/ MatCopyKeywords
    \/ MatCopyStats \/ MatCopyStatsFail \/ MatFullIndex \/ MatFullIndexInputFail
    \/ MatFullIndexKeyError \/ MatCrash \/ MatExit

\* between two runs the corpus file is taken away
EnvRemoveQuotesFile ==
    /\ phase = "idle"
    /\ quotesFile.kind = "ok"
    /\ collection # <<>>
    /\ quotesFile' = [kind |-> "missing", data |-> <<>>]
    /\ UNCHANGED << keywordsFile, statsFile, vectorizer, collection, api, phase, run,
                    ipc, raw_quotes, quotes, duplicates, keywords_by_category, mpc,
                    all_keywords, vocabulary, queries, abortReason, outputsAtStart >>

Next == IndexerNext \/ MaterializerNext \/ EnvRemoveQuotesFile

-----------------------------------------------------------------------------
(* Initial states: nothing has run yet; the input file and the vectorizer's *)
(* answers are drawn from bounded sets.                                     *)

\* the sequences over S of length at most n
SeqsUpTo(S, n) == UNION { [1..k -> S] : k \in 0..n }

\* the categories the inputs below can produce
CatDomain == { OTHER_CATEGORY, << "c" >>, <<>> }

\* a vectorizer that finds no term in any category
NoTerms == [c \in CatDomain |-> <<>>]

\* inputs that exercise deduplication: texts and authors equal up to whitespace
DedupRecords ==
    { Rec(Str(q), a, Absent, Absent, Absent) :
        q \in { << " " >>, << "a" >>, << " ", "a" >> },
        a \in { Absent, Str(<< "b" >>), Str(<< "b", " " >>) } }
    \cup { Rec(Absent, Str(<< "b" >>), Absent, Absent, Absent) }

\* inputs that exercise category and tag normalization
CategoryRecords ==
    { Rec(Str(<< "A" >>), Absent, c, List(<< << " ", "T" >>, << " " >>, << "t" >> >>), Absent) :
        c \in { Absent, Null, Str(<<>>), Str(<< " " >>), Str(<< " ", "C" >>) } }

NormalizerCorpora == SeqsUpTo(DedupRecords \cup CategoryRecords, MaxRaw)

\* inputs that exercise the keyword scorer: one category, tags counted or not
ScorerRecords ==
    { Rec(Str(q), Absent, Absent, t, Absent) :
        q \in { << "a" >>, << "b" >>, << "a", " ", "b" >> },
        t \in { Absent, List(<< << "t" >>, << "t" >> >>) } }

ScorerCorpora == SeqsUpTo(ScorerRecords, MaxBucket)

\* the vectorizer's possible answers: "ab" is a term no quote contains literally
ScorerTerms ==
    { a \o ab \o b :
        a \in { <<>>, << [word |-> << "a" >>, score |-> 100] >>,
                << [word |-> << "a" >>, score |-> 900] >> },
        ab \in { <<>>, << [word |-> << "a", "b" >>, score |-> 900] >> },
        b \in { <<>>, << [word |-> << "b" >>, score |-> 100] >> } }

\* what holds initially whatever the inputs are
InitCommon ==
    /\ keywordsFile = <<>>
    /\ statsFile = <<>>
    /\ collection = <<>>
    /\ api = NoApi
    /\ phase = "idle"
    /\ ipc = "off"
    /\ mpc = "off"
    /\ raw_quotes = <<>>
    /\ quotes = <<>>
    /\ duplicates = 0
    /\ keywords_by_category = NoEntries
    /\ all_keywords = {}
    /\ vocabulary = {}
    /\ queries = <<>>
    /\ abortReason = ""
    /\ outputsAtStart = [api |-> NoApi, keywordsFile |-> <<>>, statsFile |-> <<>>,
                         collection |-> <<>>]

\* one indexing run over the normalizer and the scorer inputs
InitIndexer ==
    /\ InitCommon
    /\ run = MaxRuns - 1
    /\ \/ /\ quotesFile \in { [kind |-> "missing", data |-> <<>>],
                              [kind |-> "malformed", data |-> <<>>] }
          /\ vectorizer = NoTerms
       \/ /\ \E c \in NormalizerCorpora : quotesFile = [kind |-> "ok", data |-> c]
          /\ vectorizer = NoTerms
       \/ /\ \E c \in ScorerCorpora : quotesFile = [kind |-> "ok", data |-> c]
          /\ \E m \in ScorerTerms : vectorizer = [c \in CatDomain |-> m]

SpecIndexer == InitIndexer /\ [][IndexerNext]_vars

\* inputs of the whole pipeline: a quote, a duplicate of it up to whitespace, a quote
\* of another category with a tag holding a comma, and two records without text
PipelineRecords ==
    { Rec(Str(<< "a" >>), Str(<< "b" >>), Str(<< "C", " " >>),
          List(<< << "T" >>, << "t" >> >>), List(<< 7 >>)),
      Rec(Str(<< "a", " " >>), Str(<< "b" >>), Absent, Absent, Absent),
      Rec(Str(<< "A" >>), Absent, Absent, List(<< << "t", ",", "u" >> >>), Absent),
      Rec(Str(<< " " >>), Absent, Absent, Absent, Absent),
      Rec(Absent, Str(<< "b" >>), Absent, Absent, Absent) }

PipelineCorpora == SeqsUpTo(PipelineRecords, MaxCorpus)

\* the vectorizer's answers in the pipeline scenarios, the same for every category
PipelineTerms ==
    { <<>>,
      << [word |-> << "a" >>, score |-> 500] >>,
      << [word |-> << "a" >>, score |-> 500], [word |-> << "b" >>, score |-> 100] >> }

\* the whole pipeline: any sequence of runs of the two scripts
Init ==
    /\ InitCommon
    /\ run = 0
    /\ \/ /\ quotesFile \in { [kind |-> "missing", data |-> <<>>],
                              [kind |-> "malformed", data |-> <<>>] }
          /\ vectorizer = NoTerms
       \/ /\ \E c \in PipelineCorpora : quotesFile = [kind |-> "ok", data |-> c]
          /\ \E m \in PipelineTerms : vectorizer = [c \in CatDomain |-> m]

Spec == Init /\ [][Next]_vars

-----------------------------------------------------------------------------
(* Properties of the indexing run *)

\* the fields a raw record has
RawOf(q) == Rec(q.Quote, q.Author, q.Category, q.Tags, q.Popularity)

\* the (trimmed text, trimmed author) pair of the i-th raw record
TrimmedPair(raw, i) ==
    << Strip(IF raw[i].Quote.k = "absent" THEN <<>> ELSE raw[i].Quote.v),
       Strip(IF raw[i].Author.k = "absent" THEN <<>> ELSE raw[i].Author.v) >>

\* the i-th raw record has a non-empty trimmed text
HasText(raw, i) == TrimmedPair(raw, i)[1] # <<>>

\* the i-th raw record is the first one, in input order, with its pair
FirstOccurrence(raw, i) ==
    /\ HasText(raw, i)
    /\ \A j \in 1..(i - 1) : TrimmedPair(raw, j) # TrimmedPair(raw, i)

RECURSIVE FirstOccurrencesFrom(_, _)
\* the first occurrences among raw[i..], in input order
FirstOccurrencesFrom(raw, i) ==
    IF i > Len(raw) THEN <<>>
    ELSE IF FirstOccurrence(raw, i) THEN << raw[i] >> \o FirstOccurrencesFrom(raw, i + 1)
    ELSE FirstOccurrencesFrom(raw, i + 1)

\* the deduplication loop has run in the current indexing run
Deduplicated ==
    /\ phase = "indexing"
    /\ ipc \in { "normalize", "score", "reset_collection", "add", "export_keywords",
                 "export_stats", "done" }

\* C3: after deduplication the quotes are exactly the raw records with a non-empty
\* trimmed text that are the first occurrence of their (trimmed text, trimmed author)
\* pair, in input order; no two of them share the pair; duplicates counts the records
\* with text that were discarded, and the records without text are not counted, so
\* quotes + duplicates + records without text = raw records.
DeduplicationCorrect ==
    Deduplicated =>
        LET empties == Cardinality({ i \in 1..Len(raw_quotes) : ~HasText(raw_quotes, i) })
            later == Cardinality({ i \in 1..Len(raw_quotes) :
                        HasText(raw_quotes, i) /\ ~FirstOccurrence(raw_quotes, i) })
        IN  /\ [i \in 1..Len(quotes) |-> RawOf(quotes[i])]
                   = FirstOccurrencesFrom(raw_quotes, 1)
            /\ \A i, j \in 1..Len(quotes) :
                   i # j => TrimmedPair(quotes, i) # TrimmedPair(quotes, j)
            /\ duplicates = later
            /\ Len(quotes) + duplicates + empties = Len(raw_quotes)

\* C3 witness: a run that kept a quote, discarded a later duplicate whose raw text
\* differs from the kept one only by whitespace, and dropped a record without text
DeduplicationWitness ==
    /\ Deduplicated
    /\ Len(raw_quotes) = 3
    /\ Len(quotes) = 1
    /\ duplicates = 1
    /\ \E i \in 1..3 : ~HasText(raw_quotes, i)
    /\ \E i \in 1..3 : HasText(raw_quotes, i) /\ raw_quotes[i].Quote # quotes[1].Quote

\* the normalization loop has run in the current indexing run
Normalized ==
    /\ phase = "indexing"
    /\ ipc \in { "score", "reset_collection", "add", "export_keywords", "export_stats",
                 "done" }

\* C6: every normalized quote's category is the trimmed, lower-cased Category, and is
\* "other" when Category is absent, null, empty or whitespace only; no quote has the
\* empty string as its category.
CategoryNormalized ==
    Normalized =>
        \A i \in 1..Len(quotes) :
            LET c == quotes[i].Category
                missing == c.k # "str" \/ Strip(c.v) = <<>>
            IN  /\ quotes[i].category_normalized
                       = (IF missing THEN OTHER_CATEGORY ELSE Lower(Strip(c.v)))
                /\ quotes[i].category_normalized # <<>>

\* the scoring loop has run in the current indexing run
ScoredAll ==
    /\ phase = "indexing"
    /\ ipc \in { "reset_collection", "add", "export_keywords", "export_stats", "done" }

\* C2: a category's keyword list is the first TOP_KEYWORDS_PER_CATEGORY entries of the
\* candidates with quote_count > 0 sorted by (impact, quote_count) descending; so it
\* has TOP_KEYWORDS_PER_CATEGORY entries whenever that many candidates have
\* quote_count > 0, and none of its entries has count 0.
KeywordsAreTopOfFiltered ==
    ScoredAll =>
        \A c \in DOMAIN keywords_by_category :
            LET scored == Scored(Bucket(quotes, c), Vectorize(c))
                kept == WithQuotes(scored)
                out == keywords_by_category[c]
            IN  /\ out = Format(Take(SortDesc(kept), TOP_KEYWORDS_PER_CATEGORY))
                /\ Len(kept) >= TOP_KEYWORDS_PER_CATEGORY
                       => Len(out) = TOP_KEYWORDS_PER_CATEGORY
                /\ \A i \in 1..Len(out) : out[i].count # 0

-----------------------------------------------------------------------------
(* Properties of the materialization run and of the two runs together *)

\* what the Normalizer makes of the corpus file
NormalizedCorpus == Normalize(Deduplicate(quotesFile.data).quotes)

\* the words a keyword table lists under any category
WordsListed(kbc) ==
    UNION { Range([i \in 1..Len(kbc[c]) |-> kbc[c][i].word]) : c \in DOMAIN kbc }

\* the run that wrote a file of data/api, if the file is there
FileRun(f) == IF f = <<>> THEN {} ELSE { f[1].run }

\* the runs that wrote the files data/api holds
ApiFileRuns(tree) ==
    { tree.quotes[w].run : w \in DOMAIN tree.quotes }
    \cup FileRun(tree.keywords) \cup FileRun(tree.stats) \cup FileRun(tree.full_index)

\* C1: the full index has exactly one entry per normalized Quote (none for a record
\* without text or a later duplicate), in ascending id order, and each entry's 'i' is
\* the id the Normalizer gave the Quote whose text the entry holds. Stated for the
\* corpus files that normalize to at least one Quote.
FullIndexIsNormalizedCorpus ==
    (phase = "materializing" /\ mpc = "done" /\ NormalizedCorpus # <<>>) =>
        LET index == api.full_index[1].data
        IN  /\ Len(index) = Len(NormalizedCorpus)
            /\ \A j \in 1..Len(index) :
                   j <= Len(NormalizedCorpus) =>
                       /\ index[j].i = NormalizedCorpus[j].id
                       /\ index[j].q = NormalizedCorpus[j].Quote.v
                       /\ \E k \in 1..Len(collection[1]) :
                              /\ collection[1][k].id = ToStr(index[j].i)
                              /\ collection[1][k].document = index[j].q

\* C4: a run that stops on a missing or unreadable input file has by then created,
\* written and removed nothing: data/api, keywords.json, stats.json and the
\* collection are as they were when the run started.
InputErrorBeforeAnyOutput ==
    abortReason = "input" => Outputs = outputsAtStart

\* C5: once the loop is over, the artifact names in data/api/quotes are exactly the
\* distinct words of the loaded keyword lists, and as many queries were issued as
\* there are such words: a word listed under several categories is queried once.
VocabularyArtifactCorrespondence ==
    (phase = "materializing" /\ mpc \in { "copy_stats", "full_index", "done" }) =>
        /\ DOMAIN api.quotes = WordsListed(keywords_by_category)
        /\ Len(queries) = Cardinality(WordsListed(keywords_by_category))
        /\ \A w \in WordsListed(keywords_by_category) :
               Cardinality({ k \in 1..Len(queries) : queries[k].word = w }) = 1

\* C5 witness: a completed run whose keyword table lists one word under two
\* categories and at least two distinct words in all
VocabularyWitness ==
    /\ phase = "materializing" /\ mpc = "done"
    /\ Cardinality(WordsListed(keywords_by_category)) >= 2
    /\ \E c, d \in DOMAIN keywords_by_category :
           /\ c # d
           /\ \E i \in 1..Len(keywords_by_category[c]) :
                  \E j \in 1..Len(keywords_by_category[d]) :
                      keywords_by_category[c][i].word = keywords_by_category[d][j].word

\* C7: the tree of an earlier run is removed before the run writes anything: before
\* the reset no file of the current run exists, and from the reset on, aborted runs
\* included, data/api holds only files the current run wrote.
NoLeftoverArtifacts ==
    phase = "materializing" =>
        /\ mpc = "reset" => run \notin ApiFileRuns(api)
        /\ mpc # "reset" => ApiFileRuns(api) \subseteq { run }

\* C7 witness: the run started on a tree that held artifacts of an earlier run, has
\* written an artifact of its own, and was aborted
LeftoverWitness ==
    /\ phase = "materializing" /\ mpc = "aborted"
    /\ DOMAIN outputsAtStart.api.quotes # {}
    /\ outputsAtStart.api.full_index # <<>>
    /\ DOMAIN api.quotes # {}

AdvertisedKeywordsHaveArtifacts ==
    /\ api.keywords # <<>> => WordsListed(api.keywords[1].data) \subseteq DOMAIN api.quotes
    /\ abortReason = "query" =>
           /\ mpc = "aborted"
           /\ api.keywords = <<>>
           /\ all_keywords # {}
           /\ all_keywords \cap DOMAIN api.quotes = {}

\* C9 witness: a run that replaced a complete tree wrote an artifact and then
\* aborted on the query of another keyword
QueryFailureWitness ==
    /\ abortReason = "query"
    /\ outputsAtStart.api.keywords # <<>>
    /\ DOMAIN api.quotes # {}

\* C10: an artifact entry's 'tags' is the normalized tag sequence of the Quote with
\* the entry's id (same tags, same order, same length; empty when the Quote has none).
TagsRoundTrip ==
    (phase = "materializing" /\ quotesFile.kind = "ok") =>
        \A k \in 1..Len(queries) :
            LET entries == api.quotes[queries[k].word].data
            IN  \A i \in 1..Len(entries) :
                    \A j \in 1..Len(NormalizedCorpus) :
                        entries[i].id = ToStr(NormalizedCorpus[j].id)
                            => entries[i].tags = NormalizedCorpus[j].tags_normalized

=============================================================================
